---- MODULE Spec2Model ----
(***************************************************************************)
(* A model of server.js: the single `memory` object, the memory.json file  *)
(* it is loaded from and saved to, and the socket handlers that mutate it   *)
(* (face-data, smart-home, lidar-data, the Deepgram transcript callback     *)
(* with handleVoiceCommand and speakText).                                  *)
(*                                                                          *)
(* Text.  TLA+ strings are ASCII, so every Cyrillic letter is written as    *)
(* one Latin token (v = в, k = к, l = л, yu = ю, ch = ч, i = и, s = с,      *)
(* e = е, t = т, y = ы, z = з, a = а, p = п, o = о, m = м, n = н, ts = ц,  *)
(* r = р; V, Z, A are the capitals В, З, А).  A text is a sequence of       *)
(* pieces and stands for their concatenation.  A transcript is a sequence   *)
(* of one-letter pieces, so toLowerCase, includes and the regular           *)
(* expression work letter by letter; a literal of the program is one        *)
(* piece, written in transliteration.                                       *)
(*                                                                          *)
(* Numbers.  A descriptor is a sequence of integers counting quarters       *)
(* (1 is 0.25): these are exactly representable as float32, so              *)
(* Float32Array.from keeps their value; reading past the end of a typed     *)
(* array yields undefined, and arithmetic on it yields NaN.                 *)
(***************************************************************************)
EXTENDS Integers, Sequences, FiniteSets

VARIABLES
  memory,          \* the `memory` object of server.js:23
  disk,            \* memory.json: absent, unparsable, or a JSON document
  connected,       \* the sockets that passed io.use and are connected
  now,             \* Date.now()
  out,             \* what the most recent handler emitted, in order
  writes,          \* the outcome of each saveMemory call of that handler
  recognizedName,  \* the local of the face-data handler, as it last ended
  observed,        \* the emotion labels the clients sent, in order of arrival
  running          \* per socket, the handler of its event that is under way

vars ==
  <<memory, disk, connected, now, out, writes, recognizedName, observed, running>>

-----------------------------------------------------------------------------
(* Bounds of the model *)

MaxLog == 6
MaxSystemLog == 3
MaxHist == 2
MaxFaces == 2
\* the emotions specification: observations made, entries kept, clock ticks
MaxObserved == 6
MaxEmotionHist == 3
MaxTime == 2
\* the greetings specification: entries the conversation log may hold
MaxGreetings == 2

-----------------------------------------------------------------------------
(* Values *)

Sockets == {"s1", "s2"}

\* null, for a field that holds a string or null
Null == "null"
\* undefined, for a property that was never assigned
Undefined == "undefined"
\* an array-valued field that may be null: <<>> is null, <<d>> holds d
NoDescriptor == <<>>
Some(d) == <<d>>

Emotions == {"happy", "sad"}

\* the descriptors the face match is tried on: none, one or two
\* coordinates, among them pairs at equal distance (0 and 2 from 1), pairs
\* whose coordinates are each near and whose distance is not (0,0 and 2,2),
\* and descriptors of different lengths
Descriptors ==
  {<<>>, <<0>>, <<1>>, <<2>>, <<4>>, <<0, 0>>, <<2, 2>>, <<0, 4>>}

\* the descriptor the clients of the whole-system specification send
SampleDescriptors == {<<0>>}

Frames == {"f1"}

-----------------------------------------------------------------------------
(* Literals of server.js *)

\* 'Хорошо, включаю свет.'
ReplyLightOn == <<"Horosho, vklyuchayu svet.">>
\* 'Свет включен.'
LogLightOn == <<"Svet vklyuchen.">>
\* 'Выключаю свет.'
ReplyLightOff == <<"Vyklyuchayu svet.">>
\* 'Свет выключен.'
LogLightOff == <<"Svet vyklyuchen.">>
\* 'Как назвать этого человека?'
ReplyAskName == <<"Kak nazvat' etogo cheloveka?">>
\* 'Не вижу лицо для запоминания.'
ReplyNoFace == <<"Ne vizhu litso dlya zapominaniya.">>
\* 'Извините, я не понял команду.'
ReplyNotUnderstood == <<"Izvinite, ya ne ponyal komandu.">>
\* 'Не понял команду.'
LogNotUnderstood == <<"Ne ponyal komandu.">>
\* `Запомнил лицо как ${name}.`
ReplyRemembered(name) == <<"Zapomnil litso kak ">> \o name \o <<".">>
\* `Face "${name}" remembered`
LogRemembered(name) == <<"Face \"">> \o name \o <<"\" remembered">>
\* 'Привет! Рад видеть твою улыбку.'
GreetingGeneric == <<"Privet! Rad videt' tvoyu ulybku.">>
\* `Привет, ${recognizedName}! Рад видеть твою улыбку.`
GreetingNamed(name) == <<"Privet, ">> \o name \o <<"! Rad videt' tvoyu ulybku.">>

\* 'включи свет'
PhraseLightOn == <<"v", "k", "l", "yu", "ch", "i", " ", "s", "v", "e", "t">>
\* 'выключи свет'
PhraseLightOff == <<"v", "y", "k", "l", "yu", "ch", "i", " ", "s", "v", "e", "t">>
\* 'запомни лицо'
PhraseRemember == <<"z", "a", "p", "o", "m", "n", "i", " ", "l", "i", "ts", "o">>
\* 'как '
PhraseAs == <<"k", "a", "k", " ">>

-----------------------------------------------------------------------------
(* Strings: String.prototype.toLowerCase, includes, match, trim *)

Lower(ch) ==
  CASE ch = "A" -> "a"
    [] ch = "V" -> "v"
    [] ch = "Z" -> "z"
    [] OTHER -> ch

ToLowerCase(t) == [i \in 1 .. Len(t) |-> Lower(t[i])]

StartsAt(t, p, i) ==
  /\ i + Len(p) - 1 <= Len(t)
  /\ SubSeq(t, i, i + Len(p) - 1) = p

Includes(t, p) == \E i \in 1 .. Len(t) + 1 : StartsAt(t, p, i)

Whitespace == {" "}

RECURSIVE TrimStart(_)
TrimStart(t) ==
  IF t # <<>> /\ Head(t) \in Whitespace THEN TrimStart(Tail(t)) ELSE t

RECURSIVE TrimEnd(_)
TrimEnd(t) ==
  IF t # <<>> /\ t[Len(t)] \in Whitespace
  THEN TrimEnd(SubSeq(t, 1, Len(t) - 1))
  ELSE t

Trim(t) == TrimEnd(TrimStart(t))

\* the places where /запомни лицо (как )?(.+)$/ can match: the phrase, a
\* space, and at least one more character up to the end of the text, none
\* of them a line terminator
MatchStarts(t) ==
  {i \in 1 .. Len(t) :
     /\ StartsAt(t, PhraseRemember \o <<" ">>, i)
     /\ i + Len(PhraseRemember) + 1 <= Len(t)
     /\ \A j \in i + Len(PhraseRemember) + 1 .. Len(t) : t[j] # "\n"}

\* match[2] of the leftmost match: the optional group takes 'как ' when
\* something is left for (.+) after it
MatchGroup2(t) ==
  LET i == CHOOSE k \in MatchStarts(t) : \A m \in MatchStarts(t) : k <= m
      rest == SubSeq(t, i + Len(PhraseRemember) + 1, Len(t))
  IN  IF StartsAt(rest, PhraseAs, 1) /\ Len(rest) > Len(PhraseAs)
      THEN SubSeq(rest, Len(PhraseAs) + 1, Len(rest))
      ELSE rest

\* a name that is null or '': both are falsy at `if (!name)`
NoName == <<>>

\* server.js:196-200
ExtractName(text) ==
  IF MatchStarts(text) # {} THEN Trim(MatchGroup2(text)) ELSE NoName

-----------------------------------------------------------------------------
(* memory and memory.json *)

\* server.js:23-30; lastLidarFrame is not a property until lidar-data sets it
EmptyMemory ==
  [faces |-> <<>>,
   conversationLog |-> <<>>,
   emotionHistory |-> <<>>,
   state |-> [light |-> FALSE],
   lastEmotion |-> Null,
   lastFaceDescriptor |-> NoDescriptor,
   lastLidarFrame |-> Undefined]

\* JSON.stringify(memory, null, 2): a property whose value is undefined is
\* left out of the document, null is written as null
JSONstringify(m) ==
  IF m.lastLidarFrame = Undefined
  THEN [k \in DOMAIN m \ {"lastLidarFrame"} |-> m[k]]
  ELSE m

\* JSON.parse(data): a property the document lacks reads as undefined
JSONparse(doc) ==
  IF "lastLidarFrame" \in DOMAIN doc
  THEN doc
  ELSE [k \in DOMAIN doc \cup {"lastLidarFrame"} |->
          IF k = "lastLidarFrame" THEN Undefined ELSE doc[k]]

Absent == [kind |-> "absent"]
\* a file whose content is not JSON: JSON.parse throws
Corrupt == [kind |-> "corrupt"]
\* a file that exists and cannot be read: fs.readFileSync throws
Unreadable == [kind |-> "unreadable"]
Document(doc) == [kind |-> "doc", doc |-> doc]

\* what one fs.writeFileSync call can do: write the document; throw before
\* touching the file; throw after truncating it
WriteOutcomes == {"ok", "failed", "torn"}

\* A handler runs to completion on the event loop.  Its steps thread this
\* record: the memory, the file, what was emitted and the writes made.  A
\* step that writes the file has one result for each outcome of the write,
\* so a handler yields the set of records it can end with.
Enter ==
  [memory |-> memory, disk |-> disk, out |-> <<>>, writes |-> <<>>,
   recognizedName |-> recognizedName]

\* Written with a failed write undoing what the handler did to the memory
WrittenRollback(c, outcome) ==
  [c EXCEPT !.disk = CASE outcome = "ok" -> Document(JSONstringify(c.memory))
                       [] outcome = "torn" -> Corrupt
                       [] OTHER -> @,
            !.memory = IF outcome = "ok" THEN @ ELSE memory,
            !.writes = Append(@, outcome)]

\* server.js:44-47 under one outcome: a failure is caught and logged
Written(c, outcome) ==
  [c EXCEPT !.disk = CASE outcome = "ok" -> Document(JSONstringify(c.memory))
                       [] outcome = "torn" -> Corrupt
                       [] OTHER -> @,
            !.writes = Append(@, outcome)]

\* server.js:42-48
saveMemory(c) == {Written(c, outcome) : outcome \in WriteOutcomes}

Emit(c, event, to, data) ==
  [c EXCEPT !.out = Append(@, [event |-> event, to |-> to, data |-> data])]

Log(c, from, text) ==
  [c EXCEPT !.memory.conversationLog =
              Append(@, [time |-> now, from |-> from, text |-> text])]

\* speakText emitting to every connection (io.emit for socket.emit)
speakTextToAll(c, text, socket) ==
  Log(Emit(c, "tts", connected, text), "assistant", text)

\* speakText without the push of server.js:229
speakTextNoLog(c, text, socket) == Emit(c, "tts", {socket}, text)

\* server.js:221-230
speakText(c, text, socket) ==
  Log(Emit(c, "tts", {socket}, text), "assistant", text)

-----------------------------------------------------------------------------
(* Numbers of the face match: a float32 or double value, NaN, Infinity, or *)
(* the undefined read past the end of a typed array.  A finite value       *)
(* counts quarters (a difference) or sixteenths (a square, a sum of        *)
(* squares).                                                               *)

Num(v) == [kind |-> "number", v |-> v]
NaN == [kind |-> "NaN", v |-> 0]
Infinity == [kind |-> "Infinity", v |-> 0]
UndefinedValue == [kind |-> "undefined", v |-> 0]

\* Float32Array.from(descriptor)
Float32ArrayFrom(descriptor) == [i \in 1 .. Len(descriptor) |-> Num(descriptor[i])]

\* typedArray[i], for the zero-based index i of the code
At(typedArray, i) ==
  IF i + 1 <= Len(typedArray) THEN typedArray[i + 1] ELSE UndefinedValue

\* a - b
Minus(a, b) ==
  IF a.kind = "number" /\ b.kind = "number" THEN Num(a.v - b.v) ELSE NaN

\* a * a
Square(a) == IF a.kind = "number" THEN Num(a.v * a.v) ELSE NaN

\* a + b, for a finite or NaN
Plus(a, b) ==
  IF a.kind = "number" /\ b.kind = "number" THEN Num(a.v + b.v) ELSE NaN

\* server.js:134-138: sumSq after the iterations i, ..., knownDesc.length - 1
RECURSIVE SumSqFrom(_, _, _, _)
SumSqFrom(knownDesc, desc, i, sumSq) ==
  IF i < Len(knownDesc)
  THEN LET diff == Minus(At(knownDesc, i), At(desc, i))
       IN  SumSqFrom(knownDesc, desc, i + 1, Plus(sumSq, Square(diff)))
  ELSE sumSq

\* the threshold 0.6 of server.js:140, as ThresholdNum / ThresholdDen
ThresholdNum == 6
ThresholdDen == 10

\* Math.sqrt(sumSq) < 0.6, for sumSq in sixteenths: sqrt is increasing, so
\* this is sumSq / 16 < 0.36; NaN compares false
SqrtBelowThreshold(sumSq) ==
  /\ sumSq.kind = "number"
  /\ sumSq.v * ThresholdDen * ThresholdDen < ThresholdNum * ThresholdNum * 4 * 4

\* Math.sqrt(a) < Math.sqrt(b), where b may be Infinity; NaN compares false
SqrtLess(a, b) ==
  /\ a.kind = "number"
  /\ b.kind = "Infinity" \/ (b.kind = "number" /\ a.v < b.v)

\* Consider with `distance <= bestDistance`: a later tie replaces the best
ConsiderLastTie(best, person, sumSq) ==
  IF SqrtBelowThreshold(sumSq) /\ ~SqrtLess(best.bestDistance, sumSq)
  THEN [bestDistance |-> sumSq, recognizedName |-> person.name]
  ELSE best

\* Consider without `distance < 0.6`
ConsiderNoThreshold(best, person, sumSq) ==
  IF SqrtLess(sumSq, best.bestDistance)
  THEN [bestDistance |-> sumSq, recognizedName |-> person.name]
  ELSE best

\* server.js:140-143: one candidate against the best so far; best holds
\* the square of bestDistance
Consider(best, person, sumSq) ==
  IF SqrtBelowThreshold(sumSq) /\ SqrtLess(sumSq, best.bestDistance)
  THEN [bestDistance |-> sumSq, recognizedName |-> person.name]
  ELSE best

\* server.js:132-144: the loop over memory.faces from index k on
RECURSIVE Scan(_, _, _, _)
Scan(faces, desc, k, best) ==
  IF k > Len(faces) THEN best
  ELSE LET person == faces[k]
           knownDesc == Float32ArrayFrom(person.descriptor)
           sumSq == SumSqFrom(knownDesc, desc, 0, Num(0))
       IN  Scan(faces, desc, k + 1, Consider(best, person, sumSq))

\* server.js:128-145: recognizedName for a face-data event; descriptor is
\* NoDescriptor or Some(d)
Recognize(descriptor, faces) ==
  IF descriptor # NoDescriptor /\ Len(faces) > 0
  THEN Scan(faces, Float32ArrayFrom(descriptor[1]), 1,
            [bestDistance |-> Infinity, recognizedName |-> NoName]).recognizedName
  ELSE NoName

-----------------------------------------------------------------------------
(* The handlers *)

\* server.js:184-188 and 190-194
switchLight(c, light, reply, logged, socket) ==
  LET c1 == [c EXCEPT !.memory.state.light = light]
      c2 == speakText(c1, reply, socket)
      c3 == Emit(c2, "light-state", connected, c2.memory.state.light)
  IN  {Log(c3, "assistant", logged)}

\* rememberFace without the test of server.js:203
rememberFaceUnchecked(c, name, socket) ==
  IF name = NoName THEN
    {speakText(c, ReplyAskName, socket)}
  ELSE
    LET c1 == [c EXCEPT !.memory.faces =
                 Append(@, [name |-> name,
                            descriptor |-> IF c.memory.lastFaceDescriptor = NoDescriptor
                                           THEN <<>>
                                           ELSE c.memory.lastFaceDescriptor[1]])]
        c2 == speakText(c1, ReplyRemembered(name), socket)
        c3 == Log(c2, "system", LogRemembered(name))
    IN  saveMemory(c3)

\* server.js:201-211
rememberFace(c, name, socket) ==
  IF name = NoName THEN
    {speakText(c, ReplyAskName, socket)}
  ELSE IF c.memory.lastFaceDescriptor # NoDescriptor THEN
    LET c1 == [c EXCEPT !.memory.faces =
                 Append(@, [name |-> name,
                            descriptor |-> c.memory.lastFaceDescriptor[1]])]
        c2 == speakText(c1, ReplyRemembered(name), socket)
        c3 == Log(c2, "system", LogRemembered(name))
    IN  saveMemory(c3)
  ELSE
    {speakText(c, ReplyNoFace, socket)}

\* server.js:213-215
notUnderstood(c, socket) ==
  LET c1 == speakText(c, ReplyNotUnderstood, socket)
  IN  {Log(c1, "assistant", LogNotUnderstood)}

\* voiceBranch trying the light-off rule before the light-on rule
voiceBranchOffFirst(c, transcript, socket) ==
  LET text == ToLowerCase(transcript)
  IN  IF Includes(text, PhraseLightOff) THEN
        switchLight(c, FALSE, ReplyLightOff, LogLightOff, socket)
      ELSE IF Includes(text, PhraseLightOn) THEN
        switchLight(c, TRUE, ReplyLightOn, LogLightOn, socket)
      ELSE IF Includes(text, PhraseRemember) THEN
        rememberFace(c, ExtractName(text), socket)
      ELSE
        notUnderstood(c, socket)

\* server.js:182-216: the branch taken, up to the saveMemory of line 217
voiceBranch(c, transcript, socket) ==
  LET text == ToLowerCase(transcript)
  IN  IF Includes(text, PhraseLightOn) THEN
        switchLight(c, TRUE, ReplyLightOn, LogLightOn, socket)
      ELSE IF Includes(text, PhraseLightOff) THEN
        switchLight(c, FALSE, ReplyLightOff, LogLightOff, socket)
      ELSE IF Includes(text, PhraseRemember) THEN
        rememberFace(c, ExtractName(text), socket)
      ELSE
        notUnderstood(c, socket)

\* server.js:181-218
handleVoiceCommand(c, transcript, socket) ==
  UNION {saveMemory(c1) : c1 \in voiceBranch(c, transcript, socket)}

\* transcriptReceived without the saveMemory of server.js:99
transcriptReceivedNoSave(c, dgResult, socket) ==
  IF dgResult.is_final /\ dgResult.transcript # <<>> THEN
    LET c1 == Log(c, "user", dgResult.transcript)
        c2 == Emit(c1, "transcript", {socket}, dgResult.transcript)
    IN  handleVoiceCommand(c2, dgResult.transcript, socket)
  ELSE {c}

\* server.js:91-101, the callback of the connection's live transcription
transcriptReceived(c, dgResult, socket) ==
  IF dgResult.is_final /\ dgResult.transcript # <<>> THEN
    LET c1 == Log(c, "user", dgResult.transcript)
        c2 == Emit(c1, "transcript", {socket}, dgResult.transcript)
    IN  UNION {saveMemory(c3) :
                 c3 \in handleVoiceCommand(c2, dgResult.transcript, socket)}
  ELSE {c}

\* observeEmotion without the comparison of server.js:118
observeEmotionAlways(c, emotion) ==
  IF emotion # Undefined
  THEN [c EXCEPT !.memory.lastEmotion = emotion,
                 !.memory.emotionHistory =
                    Append(@, [time |-> now, emotion |-> emotion])]
  ELSE c

\* server.js:117-122
observeEmotion(c, emotion) ==
  IF emotion # Undefined /\ emotion # c.memory.lastEmotion
  THEN [c EXCEPT !.memory.lastEmotion = emotion,
                 !.memory.emotionHistory =
                    Append(@, [time |-> now, emotion |-> emotion])]
  ELSE c

\* faceData greeting everybody as a stranger
faceDataStranger(c, data, socket) ==
  LET c1 == observeEmotion(c, data.emotion)
      c2 == IF data.descriptor # NoDescriptor
            THEN [c1 EXCEPT !.memory.lastFaceDescriptor = data.descriptor]
            ELSE c1
      name == Recognize(data.descriptor, c2.memory.faces)
      c3 == [c2 EXCEPT !.recognizedName = name]
  IN  IF data.emotion = "happy"
      THEN {speakText(c3, GreetingGeneric, socket)}
      ELSE {c3}

\* faceData with lastFaceDescriptor assigned whatever the sample holds
faceDataOverwrite(c, data, socket) ==
  LET c1 == observeEmotion(c, data.emotion)
      c2 == [c1 EXCEPT !.memory.lastFaceDescriptor = data.descriptor]
      name == Recognize(data.descriptor, c2.memory.faces)
      c3 == [c2 EXCEPT !.recognizedName = name]
  IN  IF data.emotion = "happy"
      THEN {speakText(c3, IF name # NoName THEN GreetingNamed(name)
                                           ELSE GreetingGeneric, socket)}
      ELSE {c3}

\* server.js:115-154
faceData(c, data, socket) ==
  LET c1 == observeEmotion(c, data.emotion)
      c2 == IF data.descriptor # NoDescriptor
            THEN [c1 EXCEPT !.memory.lastFaceDescriptor = data.descriptor]
            ELSE c1
      name == Recognize(data.descriptor, c2.memory.faces)
      c3 == [c2 EXCEPT !.recognizedName = name]
  IN  IF data.emotion = "happy"
      THEN {speakText(c3, IF name # NoName THEN GreetingNamed(name)
                                           ELSE GreetingGeneric, socket)}
      ELSE {c3}

\* smartHome answering the requesting socket only (socket.emit for io.emit)
smartHomeToSender(c, device, action, socket) ==
  IF device = "light" THEN
    LET c1 == [c EXCEPT !.memory.state.light = (action = "on")]
        c2 == Emit(c1, "light-state", {socket}, c1.memory.state.light)
    IN  saveMemory(c2)
  ELSE {c}

\* server.js:157-164
smartHome(c, device, action, socket) ==
  IF device = "light" THEN
    LET c1 == [c EXCEPT !.memory.state.light = (action = "on")]
        c2 == Emit(c1, "light-state", connected, c1.memory.state.light)
    IN  saveMemory(c2)
  ELSE {c}

\* server.js:167-170
lidarData(c, frame, socket) ==
  LET c1 == [c EXCEPT !.memory.lastLidarFrame = frame]
  IN  {Emit(c1, "lidar-update", connected \ {socket}, frame)}

\* a start that never reads memory.json
LoadDefault(file) == EmptyMemory

\* server.js:23-40: the memory a starting process ends up with
LoadMemory(file) ==
  IF file.kind = "doc" THEN JSONparse(file.doc) ELSE EmptyMemory

-----------------------------------------------------------------------------
(* The admin panel *)

\* process.env.ADMIN_TOKEN || 'secret123' (server.js:64, 235)
validToken == "secret123"

\* new Date(time).toLocaleTimeString(): the time of day to the second, the
\* date and the milliseconds are dropped (UTC, 24-hour clock)
ToLocaleTimeString(time) ==
  LET second == (time \div 1000) % 86400
  IN  <<second \div 3600, (second \div 60) % 60, second % 60>>

RECURSIVE Join(_)
Join(texts) == IF texts = <<>> THEN <<>> ELSE Head(texts) \o Join(Tail(texts))

\* server.js:239-258: the page, piece by piece
AdminPage(m) ==
  <<"<h1>Admin Panel</h1>", "<h2>Known Faces:</h2><ul>">>
    \o Join([i \in 1 .. Len(m.faces) |-> <<"<li>">> \o m.faces[i].name \o <<"</li>">>])
    \o <<"</ul>", "<h2>Smart Home State:</h2>",
         "<p>Light: ", IF m.state.light THEN "ON" ELSE "OFF", "</p>",
         "<h2>Emotion History:</h2><pre>">>
    \o Join([i \in 1 .. Len(m.emotionHistory) |->
               <<"[", ToLocaleTimeString(m.emotionHistory[i].time), "] ",
                 m.emotionHistory[i].emotion, "\n">>])
    \o <<"</pre>", "<h2>Conversation Log:</h2><pre>">>
    \o Join([i \in 1 .. Len(m.conversationLog) |->
               <<"[", ToLocaleTimeString(m.conversationLog[i].time), "] ",
                 m.conversationLog[i].from, ": ">>
                 \o m.conversationLog[i].text \o <<"\n">>])
    \o <<"</pre>">>

\* the handler of /admin without the test of the token
adminOpen(token, m) == [status |-> 200, body |-> AdminPage(m)]

\* server.js:233-260; token is req.query.token, Undefined when it is missing
admin(token, m) ==
  IF token # validToken
  THEN [status |-> 401, body |-> <<"Unauthorized">>]
  ELSE [status |-> 200, body |-> AdminPage(m)]

-----------------------------------------------------------------------------
(* Inputs *)

Tokens == {validToken, "guess", ""}

\* 'Включи свет', 'выключи свет', 'запомни лицо как Анна', 'запомни лицо',
\* 'Запомни лицо Вова ', 'запомни лицо  ', 'привет'
SayLightOn == <<"V", "k", "l", "yu", "ch", "i", " ", "s", "v", "e", "t">>
SayLightOff == <<"v", "y", "k", "l", "yu", "ch", "i", " ", "s", "v", "e", "t">>
SayRememberAnna ==
  <<"z", "a", "p", "o", "m", "n", "i", " ", "l", "i", "ts", "o", " ",
    "k", "a", "k", " ", "A", "n", "n", "a">>
SayRemember == <<"z", "a", "p", "o", "m", "n", "i", " ", "l", "i", "ts", "o">>
SayRememberVova ==
  <<"Z", "a", "p", "o", "m", "n", "i", " ", "l", "i", "ts", "o", " ",
    "V", "o", "v", "a", " ">>
SayRememberBlank ==
  <<"z", "a", "p", "o", "m", "n", "i", " ", "l", "i", "ts", "o", " ", " ">>
SayHello == <<"p", "r", "i", "v", "e", "t">>

Transcripts ==
  {SayLightOn, SayLightOff, SayRememberAnna, SayRememberVova, SayRemember,
   SayRememberBlank, SayHello}

\* what Deepgram hands to the callback: final or interim, possibly empty
DgResults ==
  [is_final : {TRUE}, transcript : Transcripts \cup {<<>>}]
    \cup [is_final : {FALSE}, transcript : {SayLightOn}]

\* the results the whole-system specification draws from
SystemDgResults ==
  [is_final : {TRUE}, transcript : {SayLightOn, SayRememberAnna, SayHello}]

FaceSamples ==
  [descriptor : {NoDescriptor} \cup {Some(d) : d \in SampleDescriptors},
   emotion : Emotions \cup {Undefined}]

\* the samples of the face match specification: any descriptor, no emotion
MatchSamples == [descriptor : {Some(d) : d \in Descriptors}, emotion : {Undefined}]

SmartHomeRequests ==
  {[device |-> "light", action |-> "on"],
   [device |-> "light", action |-> "off"],
   [device |-> "fan", action |-> "on"]}

\* the names under which the face match specification knows faces
Names == {<<"a", "n", "n", "a">>, <<"v", "o", "v", "a">>}

FaceRecords == [name : Names, descriptor : Descriptors]

RECURSIVE ListsUpTo(_, _)
ListsUpTo(S, n) ==
  IF n = 0 THEN {<<>>}
  ELSE LET shorter == ListsUpTo(S, n - 1)
       IN  shorter \cup
             {Append(q, x) : q \in {r \in shorter : Len(r) = n - 1}, x \in S}

-----------------------------------------------------------------------------
(* The state machine *)

\* What a specification lets the environment do: how long the conversation
\* log may grow, and which outcomes the writes of one handler may meet.
AnyWrites == UNION {[1 .. n -> WriteOutcomes] : n \in 0 .. 3}
UniformWrites == {ws \in AnyWrites : \A i, j \in DOMAIN ws : ws[i] = ws[j]}

System == [maxLog |-> MaxSystemLog, maxHist |-> MaxHist, writes |-> UniformWrites]
Voice == [maxLog |-> MaxLog, maxHist |-> MaxHist, writes |-> AnyWrites]

\* the handler has returned: what it made of the memory and the file is
\* the state the next event finds
Adopt(c, env) ==
  /\ c.writes \in env.writes
  /\ Len(c.memory.conversationLog) <= env.maxLog
  /\ Len(c.memory.emotionHistory) <= env.maxHist
  /\ Len(c.memory.faces) <= MaxFaces
  /\ memory' = c.memory
  /\ disk' = c.disk
  /\ out' = c.out
  /\ writes' = c.writes
  /\ recognizedName' = c.recognizedName

Commit(c, env) ==
  /\ Adopt(c, env)
  /\ UNCHANGED <<connected, now, observed, running>>

\* no handler of any connection is on the call stack
NotRunning == [handler |-> "none"]
Idle == [socket \in Sockets |-> NotRunning]

\* the process has started on the file `file`: nobody is connected yet
Started(file) ==
  /\ disk = file
  /\ memory = LoadMemory(disk)
  /\ connected = {}
  /\ now = 0
  /\ out = <<>>
  /\ writes = <<>>
  /\ recognizedName = NoName
  /\ observed = <<>>
  /\ running = Idle

\* a first start: no memory.json yet
Init == Started(Absent)

\* server.js:62-69, 71-73
Connect(socket, token) ==
  /\ socket \notin connected
  /\ connected' = IF token # "" /\ token = validToken
                  THEN connected \cup {socket}
                  ELSE connected
  /\ UNCHANGED <<memory, disk, now, out, writes, recognizedName, observed, running>>

\* server.js:172-177
Disconnect(socket) ==
  /\ socket \in connected
  /\ connected' = connected \ {socket}
  /\ UNCHANGED <<memory, disk, now, out, writes, recognizedName, observed, running>>

FaceData(socket, data, env) ==
  /\ socket \in connected
  /\ \E c \in faceData(Enter, data, socket) : Commit(c, env)

Transcript(socket, dgResult, env) ==
  /\ socket \in connected
  /\ \E c \in transcriptReceived(Enter, dgResult, socket) : Commit(c, env)

SmartHome(socket, request, env) ==
  /\ socket \in connected
  /\ \E c \in smartHome(Enter, request.device, request.action, socket) :
       Commit(c, env)

LidarData(socket, frame, env) ==
  /\ socket \in connected
  /\ \E c \in lidarData(Enter, frame, socket) : Commit(c, env)

\* the process ends and starts again: server.js:23-40 run anew
Restart ==
  /\ memory' = LoadMemory(disk)
  /\ connected' = {}
  /\ out' = <<>>
  /\ writes' = <<>>
  /\ recognizedName' = NoName
  /\ observed' = <<>>
  /\ running' = Idle
  /\ UNCHANGED <<disk, now>>

\* The whole system: every handler, connections coming and going, restarts.
Next ==
  \/ \E socket \in Sockets, token \in Tokens : Connect(socket, token)
  \/ \E socket \in Sockets : Disconnect(socket)
  \/ \E socket \in Sockets, data \in FaceSamples : FaceData(socket, data, System)
  \/ \E socket \in Sockets, dgResult \in SystemDgResults :
       Transcript(socket, dgResult, System)
  \/ \E socket \in Sockets, request \in SmartHomeRequests :
       SmartHome(socket, request, System)
  \/ \E socket \in Sockets, frame \in Frames : LidarData(socket, frame, System)
  \/ Restart

Spec == Init /\ [][Next]_vars

\* The voice commands in depth: every transcript, every outcome of every
\* write, samples that supply the descriptor to remember.
NextVoice ==
  \/ \E socket \in Sockets, token \in Tokens : Connect(socket, token)
  \/ \E socket \in Sockets, d \in SampleDescriptors :
       FaceData(socket, [descriptor |-> Some(d), emotion |-> Undefined], Voice)
  \/ \E socket \in Sockets, dgResult \in DgResults :
       Transcript(socket, dgResult, Voice)

SpecVoice == Init /\ [][NextVoice]_vars

\* The face match on its own: the process starts with a memory.json that
\* holds any list of known faces, and samples with any descriptor arrive.
InitMatch ==
  \E faces \in ListsUpTo(FaceRecords, MaxFaces) :
    Started(Document(JSONstringify([EmptyMemory EXCEPT !.faces = faces])))

NextMatch ==
  \/ \E socket \in Sockets : Connect(socket, validToken)
  \/ \E socket \in Sockets, data \in MatchSamples : FaceData(socket, data, Voice)

SpecMatch == InitMatch /\ [][NextMatch]_vars

\* The known faces over restarts: faces are remembered under two names from
\* two descriptors, the other events arrive in between, and the process is
\* restarted on whatever the writes have left in memory.json.
FacesDescriptors == {<<0>>, <<4>>}

FacesSamples ==
  [descriptor : {NoDescriptor} \cup {Some(d) : d \in FacesDescriptors},
   emotion : {Undefined}]

FacesDgResults ==
  [is_final : {TRUE}, transcript : {SayRememberAnna, SayRememberVova}]

FacesRequests == {[device |-> "light", action |-> "on"]}

\* one client is enough here
FacesSockets == {"s1"}

NextFaces ==
  \/ \E socket \in FacesSockets : Connect(socket, validToken)
  \/ \E socket \in FacesSockets, data \in FacesSamples : FaceData(socket, data, Voice)
  \/ \E socket \in FacesSockets, dgResult \in FacesDgResults :
       Transcript(socket, dgResult, Voice)
  \/ \E socket \in FacesSockets, request \in FacesRequests :
       SmartHome(socket, request, Voice)
  \/ \E socket \in FacesSockets, frame \in Frames : LidarData(socket, frame, Voice)
  \/ Restart

SpecFaces == Init /\ [][NextFaces]_vars

\* Starting on any file.  memory.json is absent, cannot be read, is not
\* JSON, is JSON that is not a memory ({"faces": []} and
\* {"state": {"light": true}}), or is the document of a memory.
MalformedDocuments == {[faces |-> <<>>], [state |-> [light |-> TRUE]]}

StartupFaces == [name : Names, descriptor : SampleDescriptors]

StartupFiles ==
  {Absent, Corrupt, Unreadable}
    \cup {Document(doc) : doc \in MalformedDocuments}
    \cup {Document(JSONstringify([EmptyMemory EXCEPT !.faces = faces,
                                                    !.state.light = light])) :
            faces \in ListsUpTo(StartupFaces, MaxFaces), light \in BOOLEAN}

\* the properties every handler reads without a test
MemoryProperties ==
  {"faces", "conversationLog", "emotionHistory", "state", "lastEmotion",
   "lastFaceDescriptor"}

WellFormed(m) == MemoryProperties \subseteq DOMAIN m

InitStartup == \E file \in StartupFiles : Started(file)

\* A handler that reads a list or the state of a memory that lacks it
\* throws; the events below are those of a memory that has them all.
NextStartup ==
  \/ \E socket \in FacesSockets : Connect(socket, validToken)
  \/ /\ WellFormed(memory)
     /\ \E socket \in FacesSockets, data \in FaceSamples : FaceData(socket, data, System)
  \/ /\ WellFormed(memory)
     /\ \E socket \in FacesSockets, request \in FacesRequests :
          SmartHome(socket, request, System)
  \/ Restart

SpecStartup == InitStartup /\ [][NextStartup]_vars

\* The light: it is switched by voice and by request while clients come and
\* go, and the handlers that do not touch it run in between.
Light == [maxLog |-> MaxLog, maxHist |-> MaxHist, writes |-> UniformWrites]

LightDgResults ==
  [is_final : {TRUE}, transcript : {SayLightOn, SayLightOff, SayHello}]

LightSamples == {[descriptor |-> NoDescriptor, emotion |-> "sad"]}

NextLight ==
  \/ \E socket \in Sockets : Connect(socket, validToken)
  \/ \E socket \in Sockets : Disconnect(socket)
  \/ \E socket \in Sockets, dgResult \in LightDgResults :
       Transcript(socket, dgResult, Light)
  \/ \E socket \in Sockets, request \in SmartHomeRequests :
       SmartHome(socket, request, Light)
  \/ \E socket \in Sockets, data \in LightSamples : FaceData(socket, data, Light)
  \/ \E socket \in Sockets, frame \in Frames : LidarData(socket, frame, Light)

SpecLight == Init /\ [][NextLight]_vars

\* The admin panel: requests for /admin arrive, with the token, another
\* one or none, while the memory fills.
AdminTokens == {validToken, "guess", Undefined}

AdminSamples == {[descriptor |-> Some(d), emotion |-> "happy"] : d \in SampleDescriptors}

AdminDgResults == [is_final : {TRUE}, transcript : {SayRememberAnna}]

\* server.js:233-260: the response is noted with the token it answers
Admin(token) ==
  /\ out' = <<[event |-> "admin", to |-> {"http"},
               data |-> [token |-> token, response |-> admin(token, memory)]]>>
  /\ writes' = <<>>
  /\ UNCHANGED <<memory, disk, connected, now, recognizedName, observed, running>>

NextAdmin ==
  \/ \E socket \in FacesSockets : Connect(socket, validToken)
  \/ \E socket \in FacesSockets, data \in AdminSamples : FaceData(socket, data, Voice)
  \/ \E socket \in FacesSockets, dgResult \in AdminDgResults :
       Transcript(socket, dgResult, Voice)
  \/ \E socket \in FacesSockets, request \in FacesRequests :
       SmartHome(socket, request, Voice)
  \/ \E token \in AdminTokens : Admin(token)

SpecAdmin == Init /\ [][NextAdmin]_vars

\* The handlers step by step.  Node runs one callback at a time, to its
\* end: an event of any connection is dispatched when the call stack is
\* empty, and the handlers are synchronous (fs.writeFileSync, no await), so
\* the steps of a handler follow one another.  A frame keeps the handler,
\* where it is, its input, and the memory as the handler last left it.
Frame(handler, pc, input, made) ==
  [handler |-> handler, pc |-> pc, input |-> input, made |-> made]

\* an event loop that would dispatch an event at any time
AnyTime == TRUE

CallStackEmpty == \A socket \in Sockets : running[socket].handler = "none"

Dispatch(socket) ==
  /\ socket \in connected
  /\ running[socket].handler = "none"
  /\ CallStackEmpty

Reached(socket, handler, pc) ==
  /\ running[socket].handler = handler
  /\ running[socket].pc = pc

\* the handler goes on from where its last step left
Resume ==
  [memory |-> memory, disk |-> disk, out |-> out, writes |-> writes,
   recognizedName |-> recognizedName]

\* one step of a handler: what it made of the context, and where it is next
Proceed(c, socket, handler, pc, input) ==
  /\ Adopt(c, Voice)
  /\ running' = [running EXCEPT
                   ![socket] = IF pc = "return" THEN NotRunning
                               ELSE Frame(handler, pc, input, c.memory)]
  /\ UNCHANGED <<connected, now, observed>>

LoopRequests ==
  {[device |-> "light", action |-> "on"], [device |-> "light", action |-> "off"]}

LoopDgResults == [is_final : {TRUE}, transcript : {SayLightOn, SayRememberAnna}]

\* server.js:157-159
SmartHomeAssign(socket, request) ==
  /\ Dispatch(socket)
  /\ request.device = "light"
  /\ Proceed([Enter EXCEPT !.memory.state.light = (request.action = "on")],
             socket, "smart-home", "emit", request)

\* server.js:161
SmartHomeEmit(socket) ==
  /\ Reached(socket, "smart-home", "emit")
  /\ Proceed(Emit(Resume, "light-state", connected, memory.state.light),
             socket, "smart-home", "save", running[socket].input)

\* server.js:162
SmartHomeSave(socket) ==
  /\ Reached(socket, "smart-home", "save")
  /\ \E c \in saveMemory(Resume) :
       Proceed(c, socket, "smart-home", "return", running[socket].input)

\* server.js:92-97
TranscriptLog(socket, dgResult) ==
  /\ Dispatch(socket)
  /\ dgResult.is_final /\ dgResult.transcript # <<>>
  /\ Proceed(Emit(Log(Enter, "user", dgResult.transcript),
                  "transcript", {socket}, dgResult.transcript),
             socket, "transcript", "interpret", dgResult)

\* server.js:98, 182-216
TranscriptInterpret(socket) ==
  /\ Reached(socket, "transcript", "interpret")
  /\ \E c \in voiceBranch(Resume, running[socket].input.transcript, socket) :
       Proceed(c, socket, "transcript", "save", running[socket].input)

\* server.js:217
TranscriptSave(socket) ==
  /\ Reached(socket, "transcript", "save")
  /\ \E c \in saveMemory(Resume) :
       Proceed(c, socket, "transcript", "save again", running[socket].input)

\* server.js:99
TranscriptSaveAgain(socket) ==
  /\ Reached(socket, "transcript", "save again")
  /\ \E c \in saveMemory(Resume) :
       Proceed(c, socket, "transcript", "return", running[socket].input)

LoopSamples == {[descriptor |-> Some(d), emotion |-> "happy"] : d \in SampleDescriptors}

\* server.js:116-125
FaceDataObserve(socket, data) ==
  /\ Dispatch(socket)
  /\ LET c1 == observeEmotion(Enter, data.emotion)
         c2 == IF data.descriptor # NoDescriptor
               THEN [c1 EXCEPT !.memory.lastFaceDescriptor = data.descriptor]
               ELSE c1
     IN  Proceed(c2, socket, "face-data", "recognize", data)

\* server.js:128-153
FaceDataGreet(socket) ==
  /\ Reached(socket, "face-data", "recognize")
  /\ LET data == running[socket].input
         name == Recognize(data.descriptor, memory.faces)
         c3 == [Resume EXCEPT !.recognizedName = name]
         c4 == IF data.emotion = "happy"
               THEN speakText(c3, IF name # NoName THEN GreetingNamed(name)
                                                   ELSE GreetingGeneric, socket)
               ELSE c3
     IN  Proceed(c4, socket, "face-data", "return", data)

NextLoop ==
  \/ \E socket \in Sockets : Connect(socket, validToken)
  \/ \E socket \in Sockets, data \in LoopSamples : FaceDataObserve(socket, data)
  \/ \E socket \in Sockets : FaceDataGreet(socket)
  \/ \E socket \in Sockets, request \in LoopRequests : SmartHomeAssign(socket, request)
  \/ \E socket \in Sockets : SmartHomeEmit(socket)
  \/ \E socket \in Sockets : SmartHomeSave(socket)
  \/ \E socket \in Sockets, dgResult \in LoopDgResults : TranscriptLog(socket, dgResult)
  \/ \E socket \in Sockets : TranscriptInterpret(socket)
  \/ \E socket \in Sockets : TranscriptSave(socket)
  \/ \E socket \in Sockets : TranscriptSaveAgain(socket)

SpecLoop == Init /\ [][NextLoop]_vars

\* The order of the voice rules: transcripts that hold the phrases of two
\* rules, 'выключи свет Включи свет', 'Включи свет выключи свет',
\* 'Включи свет запомни лицо как Анна', 'запомни лицо как Анна выключи
\* свет', next to transcripts that hold one phrase or none.
SayOffThenOn == SayLightOff \o <<" ">> \o SayLightOn
SayOnThenOff == SayLightOn \o <<" ">> \o SayLightOff
SayOnRemember == SayLightOn \o <<" ">> \o SayRememberAnna
SayRememberOff == SayRememberAnna \o <<" ">> \o SayLightOff

OrderDgResults ==
  [is_final : {TRUE},
   transcript : {SayOffThenOn, SayOnThenOff, SayOnRemember, SayRememberOff,
                 SayLightOff, SayRememberAnna, SayHello}]

NextOrder ==
  \/ \E socket \in FacesSockets : Connect(socket, validToken)
  \/ \E socket \in FacesSockets, d \in SampleDescriptors :
       FaceData(socket, [descriptor |-> Some(d), emotion |-> Undefined], Voice)
  \/ \E socket \in FacesSockets, dgResult \in OrderDgResults :
       Transcript(socket, dgResult, Voice)

SpecOrder == Init /\ [][NextOrder]_vars

\* The greeting: the process starts knowing some faces, and samples arrive
\* that smile or do not, with a descriptor that is a known face's, near
\* one, between two, far from all, or with none.
Greeting == [maxLog |-> MaxGreetings, maxHist |-> MaxHist, writes |-> AnyWrites]

GreetingFaces ==
  {[name |-> <<"a", "n", "n", "a">>, descriptor |-> <<0>>],
   [name |-> <<"v", "o", "v", "a">>, descriptor |-> <<4>>],
   [name |-> <<"v", "o", "v", "a">>, descriptor |-> <<0>>]}

GreetingSamples ==
  [descriptor : {NoDescriptor, Some(<<0>>), Some(<<1>>), Some(<<2>>), Some(<<4>>)},
   emotion : {"happy", Undefined}]

InitGreeting ==
  \E faces \in ListsUpTo(GreetingFaces, MaxFaces) :
    Started(Document(JSONstringify([EmptyMemory EXCEPT !.faces = faces])))

NextGreeting ==
  \/ \E socket \in Sockets : Connect(socket, validToken)
  \/ \E socket \in Sockets, data \in GreetingSamples :
       FaceData(socket, data, Greeting)

SpecGreeting == InitGreeting /\ [][NextGreeting]_vars

\* The emotions on their own: the clock advances between events, and the
\* labels the clients send are kept in `observed` as they arrive.
Emotion ==
  [maxLog |-> MaxObserved, maxHist |-> MaxEmotionHist, writes |-> AnyWrites]

EmotionSamples == [descriptor : {NoDescriptor}, emotion : Emotions \cup {Undefined}]

\* Date.now() between two events: the clock does not run backwards
Tick ==
  /\ now < MaxTime
  /\ now' = now + 1
  /\ UNCHANGED <<memory, disk, connected, out, writes, recognizedName,
                 observed, running>>

\* server.js:115-154 for a sample whose emotion, when it has one, is noted
Observe(socket, data) ==
  /\ socket \in connected
  /\ Len(observed) < MaxObserved
  /\ \E c \in faceData(Enter, data, socket) : Adopt(c, Emotion)
  /\ observed' = IF data.emotion = Undefined THEN observed
                 ELSE Append(observed, data.emotion)
  /\ UNCHANGED <<connected, now, running>>

NextEmotion ==
  \/ \E socket \in Sockets : Connect(socket, validToken)
  \/ Tick
  \/ \E socket \in Sockets, data \in EmotionSamples : Observe(socket, data)

SpecEmotion == Init /\ [][NextEmotion]_vars

-----------------------------------------------------------------------------
(* What the claims speak of *)

\* a step of one of the four handlers that mutate memory
FaceDataStep == \E socket \in Sockets, data \in FaceSamples : FaceData(socket, data, System)
TranscriptStep ==
  \E socket \in Sockets, dgResult \in SystemDgResults :
    Transcript(socket, dgResult, System)
SmartHomeStep ==
  \E socket \in Sockets, request \in SmartHomeRequests :
    SmartHome(socket, request, System)
LidarDataStep == \E socket \in Sockets, frame \in Frames : LidarData(socket, frame, System)

\* the most recent handler was the transcript callback on a final, non-empty
\* transcript: it alone emits `transcript`, and emits it first
Heard == out # <<>> /\ out[1].event = "transcript"

\* the speech-output events of the most recent handler
Spoken == {i \in DOMAIN out : out[i].event = "tts"}

\* what a handler step appended to the conversation log
Appended ==
  SubSeq(memory'.conversationLog, Len(memory.conversationLog) + 1,
         Len(memory'.conversationLog))

\* the step appended to the conversation log and removed nothing
LogGrew ==
  /\ Len(memory'.conversationLog) >= Len(memory.conversationLog)
  /\ SubSeq(memory'.conversationLog, 1, Len(memory.conversationLog))
       = memory.conversationLog

-----------------------------------------------------------------------------
(* C1: in every reachable state of the whole system, no two adjacent       *)
(* entries of emotionHistory carry the same emotion label.                 *)

C1_NoAdjacentEqualEmotions ==
  \A i \in 1 .. Len(memory.emotionHistory) - 1 :
    memory.emotionHistory[i].emotion # memory.emotionHistory[i + 1].emotion

\* the history holds two entries, the second recorded after the first
C1_Witness ==
  /\ Len(memory.emotionHistory) = 2
  /\ memory.lastEmotion = memory.emotionHistory[2].emotion

(* C2: when a handler that changed memory has completed and none of its    *)
(* writes failed, memory.json holds the document of the memory.            *)

C2_DurableAfterHandler ==
  [][(/\ FaceDataStep \/ TranscriptStep \/ SmartHomeStep \/ LidarDataStep
      /\ memory' # memory
      /\ \A i \in DOMAIN writes' : writes'[i] = "ok")
     => disk' = Document(JSONstringify(memory'))]_vars

(* C3, as claimed: handling one final transcript writes memory.json        *)
(* exactly once, whichever branch is taken.                                *)

C3_ExactlyOneFlush == Heard => Len(writes) = 1

\* the most recent handler remembered a face: it alone logs as `system`
Remembered ==
  /\ Heard
  /\ memory.conversationLog # <<>>
  /\ memory.conversationLog[Len(memory.conversationLog)].from = "system"

(* C3, amended: handling one final transcript calls saveMemory exactly     *)
(* twice, and exactly three times when a face is remembered.               *)

C3_TwoOrThreeFlushes ==
  Heard => Len(writes) = IF Remembered THEN 3 ELSE 2

C3_Witness == Remembered /\ Len(writes) = 3

-----------------------------------------------------------------------------
(* The voice commands, C4 to C7.  A step of the transcript callback is     *)
(* told by its input; the entries after the first one appended (the user's *)
(* entry of server.js:96) are those of the interpreter.                    *)

Final == {dgResult \in DgResults : dgResult.is_final /\ dgResult.transcript # <<>>}

Says(dgResult, phrase) == Includes(ToLowerCase(dgResult.transcript), phrase)

\* the step is the callback of this socket handling this result (what it
\* emits first is tested first, which tells most steps apart at once)
Hears(socket, dgResult) ==
  /\ out' # <<>>
  /\ out'[1].event = "transcript"
  /\ out'[1].to = {socket}
  /\ out'[1].data = dgResult.transcript
  /\ Transcript(socket, dgResult, Voice)

InterpreterAppended ==
  SubSeq(memory'.conversationLog, Len(memory.conversationLog) + 2,
         Len(memory'.conversationLog))

\* the step sent exactly one speech-output, to this socket alone, saying reply
OneReply(socket, reply) ==
  /\ Cardinality({i \in DOMAIN out' : out'[i].event = "tts"}) = 1
  /\ \A i \in DOMAIN out' :
       out'[i].event = "tts" => out'[i].to = {socket} /\ out'[i].data = reply

\* the step left every field of memory but conversationLog as it was
OnlyLogChanged ==
  /\ LogGrew
  /\ \A k \in DOMAIN memory \ {"conversationLog"} : memory'[k] = memory[k]

LightSwitched(socket, light, reply, logged) ==
  /\ memory'.state.light = light
  /\ LogGrew
  /\ Cardinality({i \in DOMAIN Appended :
                    Appended[i].from = "assistant" /\ Appended[i].text = logged}) = 1
  /\ OneReply(socket, reply)

(* C4: a transcript containing 'включи свет' sets state.light to true,     *)
(* logs exactly one confirmation 'Свет включен.' and sends exactly one     *)
(* speech-output, to the originating connection; 'выключи свет' then sets  *)
(* it to false, with one confirmation 'Свет выключен.' and one reply.      *)

C4_LightCommands ==
  [][\A socket \in Sockets, dgResult \in Final :
       Hears(socket, dgResult) =>
         /\ Says(dgResult, PhraseLightOn) =>
              LightSwitched(socket, TRUE, ReplyLightOn, LogLightOn)
         /\ ~Says(dgResult, PhraseLightOn) /\ Says(dgResult, PhraseLightOff) =>
              LightSwitched(socket, FALSE, ReplyLightOff, LogLightOff)]_vars

\* the light was switched on by voice and has now been switched off by
\* voice, with both sockets connected
C4_Witness ==
  /\ Heard
  /\ out[2].data = ReplyLightOff
  /\ ~memory.state.light
  /\ connected = Sockets
  /\ \E i \in DOMAIN memory.conversationLog :
       memory.conversationLog[i].text = LogLightOn

Unrecognized(dgResult) ==
  /\ ~Says(dgResult, PhraseLightOn)
  /\ ~Says(dgResult, PhraseLightOff)
  /\ ~Says(dgResult, PhraseRemember)

(* C5, as claimed: a transcript that matches no rule leaves faces, state   *)
(* and emotionHistory unchanged, and the interpreter's only effect on      *)
(* memory is one appended conversation entry from 'assistant'.             *)

C5_OneAssistantEntry ==
  [][\A socket \in Sockets, dgResult \in Final :
       Hears(socket, dgResult) /\ Unrecognized(dgResult) =>
         /\ OnlyLogChanged
         /\ Len(InterpreterAppended) = 1
         /\ InterpreterAppended[1].from = "assistant"]_vars

(* C5, amended: a transcript that matches no rule leaves faces, state and  *)
(* emotionHistory unchanged, and the interpreter's only effect on memory   *)
(* is two appended conversation entries from 'assistant': the reply that   *)
(* speakText logs, then 'Не понял команду.'.                               *)

C5_TwoAssistantEntries ==
  [][\A socket \in Sockets, dgResult \in Final :
       Hears(socket, dgResult) /\ Unrecognized(dgResult) =>
         /\ OnlyLogChanged
         /\ InterpreterAppended =
              <<[time |-> now, from |-> "assistant", text |-> ReplyNotUnderstood],
                [time |-> now, from |-> "assistant", text |-> LogNotUnderstood]>>]_vars

C5_Witness == Heard /\ out[2].data = ReplyNotUnderstood

\* 'Анна', as spoken
Anna == <<"A", "n", "n", "a">>

(* C6: 'запомни лицо как Анна' while lastFaceDescriptor holds V appends    *)
(* exactly one FaceRecord, named 'Анна' with descriptor V; while           *)
(* lastFaceDescriptor is absent it appends none and sends the reply that   *)
(* no face is visible.                                                     *)

C6_RememberAnna ==
  [][\A socket \in Sockets :
       Hears(socket, [is_final |-> TRUE, transcript |-> SayRememberAnna]) =>
         IF memory.lastFaceDescriptor # NoDescriptor
         THEN memory'.faces =
                Append(memory.faces,
                       [name |-> Anna, descriptor |-> memory.lastFaceDescriptor[1]])
         ELSE memory'.faces = memory.faces /\ OneReply(socket, ReplyNoFace)]_vars

\* the remember-face rule is the one that applies, and it returns early
NoNameGiven(dgResult) ==
  /\ ~Says(dgResult, PhraseLightOn)
  /\ ~Says(dgResult, PhraseLightOff)
  /\ Says(dgResult, PhraseRemember)
  /\ ExtractName(ToLowerCase(dgResult.transcript)) = NoName

NoFaceSeen(dgResult) ==
  /\ ~Says(dgResult, PhraseLightOn)
  /\ ~Says(dgResult, PhraseLightOff)
  /\ Says(dgResult, PhraseRemember)
  /\ ExtractName(ToLowerCase(dgResult.transcript)) # NoName
  /\ memory.lastFaceDescriptor = NoDescriptor

(* C7, as claimed: in the two early returns of the remember-face rule the  *)
(* interpreter sends a reply and leaves memory as it was on entry,         *)
(* conversationLog included.                                               *)

C7_EarlyReturnLogsNothing ==
  [][\A socket \in Sockets, dgResult \in Final :
       Hears(socket, dgResult) =>
         /\ NoNameGiven(dgResult) =>
              OneReply(socket, ReplyAskName) /\ OnlyLogChanged
                /\ InterpreterAppended = <<>>
         /\ NoFaceSeen(dgResult) =>
              OneReply(socket, ReplyNoFace) /\ OnlyLogChanged
                /\ InterpreterAppended = <<>>]_vars

(* C7, amended: in the two early returns of the remember-face rule the     *)
(* interpreter sends a reply and leaves faces, state and emotionHistory as *)
(* they were; conversationLog gains one entry, the reply, which speakText  *)
(* logs as 'assistant'.                                                    *)

C7_EarlyReturnLogsReply ==
  [][\A socket \in Sockets, dgResult \in Final :
       Hears(socket, dgResult) =>
         /\ NoNameGiven(dgResult) =>
              OneReply(socket, ReplyAskName) /\ OnlyLogChanged
                /\ InterpreterAppended =
                     <<[time |-> now, from |-> "assistant", text |-> ReplyAskName]>>
         /\ NoFaceSeen(dgResult) =>
              OneReply(socket, ReplyNoFace) /\ OnlyLogChanged
                /\ InterpreterAppended =
                     <<[time |-> now, from |-> "assistant", text |-> ReplyNoFace]>>]_vars

\* both early returns have been taken: the name was asked for before, and
\* now no face is seen
C7_Witness ==
  /\ Heard
  /\ out[2].data = ReplyNoFace
  /\ \E i \in DOMAIN memory.conversationLog :
       memory.conversationLog[i].text = ReplyAskName

-----------------------------------------------------------------------------
(* The face match, C8 to C10, under SpecMatch: every sample carries a      *)
(* descriptor, so once one has been handled lastFaceDescriptor holds the   *)
(* query and recognizedName the result of matching it against faces.       *)

Matched == memory.lastFaceDescriptor # NoDescriptor
Query == memory.lastFaceDescriptor[1]
Known == memory.faces

EqualLengths == \A i \in DOMAIN Known : Len(Known[i].descriptor) = Len(Query)

\* the squared Euclidean distance of two descriptors of one length, in
\* sixteenths
RECURSIVE SumOfSquares(_, _, _)
SumOfSquares(a, b, n) ==
  IF n = 0 THEN 0
  ELSE (a[n] - b[n]) * (a[n] - b[n]) + SumOfSquares(a, b, n - 1)

SquaredDistance(a, b) == SumOfSquares(a, b, Len(a))

\* a distance below 0.6, that is a squared distance below 0.36
Near(squared) ==
  squared * ThresholdDen * ThresholdDen < ThresholdNum * ThresholdNum * 16

First(indices) == CHOOSE i \in indices : \A j \in indices : i <= j

Exact == {i \in DOMAIN Known : Known[i].descriptor = Query}

(* C8: for a query and a reference set of descriptors of the query's       *)
(* length that holds a record equal to the query, the face match returns   *)
(* the name of such a record: of the first one, when there are several.    *)

C8_ExactMatchReturned ==
  Matched /\ EqualLengths /\ Exact # {} =>
    recognizedName = Known[First(Exact)].name

\* the record equal to the query comes second, after a record of another
\* name that is near the query too
C8_Witness ==
  /\ Matched /\ EqualLengths
  /\ Len(Known) = 2
  /\ Exact = {2}
  /\ Near(SquaredDistance(Known[1].descriptor, Query))
  /\ Known[1].name # Known[2].name
  /\ recognizedName = Known[2].name

Distance(i) == SquaredDistance(Known[i].descriptor, Query)

Nearest == {i \in DOMAIN Known : \A j \in DOMAIN Known : Distance(i) <= Distance(j)}

(* C9: for a query and a reference set of descriptors of the query's       *)
(* length, the face match returns the name of the lowest-index record      *)
(* among those at the least Euclidean distance when that distance is       *)
(* below 0.6, and no name when the set is empty or no distance is.         *)

C9_NearestBelowThreshold ==
  Matched /\ EqualLengths =>
    IF Known # <<>> /\ Near(Distance(First(Nearest)))
    THEN recognizedName = Known[First(Nearest)].name
    ELSE recognizedName = NoName

\* two records of different names at the same distance from the query,
\* which is neither of them: the first is returned
C9_Witness ==
  /\ Matched /\ EqualLengths
  /\ Len(Known) = 2
  /\ Nearest = {1, 2}
  /\ Exact = {}
  /\ Known[1].name # Known[2].name
  /\ recognizedName = Known[1].name

(* C10: a record whose descriptor is longer or shorter than the query is   *)
(* not matched on a prefix of either: a name is returned only when a       *)
(* record of that name has the query's length and is within the threshold. *)

C10_NoMatchOnPrefix ==
  Matched /\ recognizedName # NoName =>
    \E i \in DOMAIN Known :
      /\ Known[i].name = recognizedName
      /\ Len(Known[i].descriptor) = Len(Query)
      /\ Near(Distance(i))

-----------------------------------------------------------------------------
(* The emotion history as a run-length encoding, C11, under SpecEmotion.   *)

\* a sequence of labels with every run of equal labels collapsed to one
RECURSIVE Collapse(_)
Collapse(labels) ==
  IF Len(labels) <= 1 THEN labels
  ELSE LET rest == Collapse(Tail(labels))
       IN  IF Head(labels) = Head(rest) THEN rest ELSE <<Head(labels)>> \o rest

HistoryLabels == [i \in 1 .. Len(memory.emotionHistory) |-> memory.emotionHistory[i].emotion]

(* C11: starting from an empty memory, the labels of emotionHistory are    *)
(* the labels observed so far with consecutive duplicates collapsed, in    *)
(* order, and no entry's time is earlier than the time of the entry before *)
(* it.                                                                     *)

C11_HistoryIsCollapsedObservations ==
  /\ HistoryLabels = Collapse(observed)
  /\ \A i \in 1 .. Len(memory.emotionHistory) - 1 :
       memory.emotionHistory[i].time <= memory.emotionHistory[i + 1].time

\* the observations a, a, b, b, b, a have left three entries, made at
\* different times
C11_Witness ==
  /\ observed = <<"sad", "sad", "happy", "happy", "happy", "sad">>
  /\ HistoryLabels = <<"sad", "happy", "sad">>
  /\ memory.emotionHistory[1].time < memory.emotionHistory[3].time

-----------------------------------------------------------------------------
(* The known faces over a restart, C12, under SpecFaces.                   *)

\* the last saveMemory call of the most recent handler wrote the file
LastWriteOk == writes # <<>> /\ writes[Len(writes)] = "ok"

(* C12: when the process is restarted after a remember-face command that   *)
(* appended a record and was saved, the memory loaded from memory.json has *)
(* the same faces, names and descriptors, in the same order.               *)

C12_FacesSurviveRestart ==
  [][Remembered /\ LastWriteOk /\ Restart => memory'.faces = memory.faces]_vars

\* a process started on the file two successful commands left: nobody is
\* connected, and two different records are known
C12_Witness ==
  /\ connected = {}
  /\ Len(memory.faces) = 2
  /\ memory.faces[1] # memory.faces[2]
  /\ disk = Document(JSONstringify(memory))

-----------------------------------------------------------------------------
(* Failed writes, C13, under SpecVoice: each saveMemory call of the        *)
(* transcript callback succeeds, fails leaving the file as it was, or      *)
(* fails after truncating it, in every combination.                        *)

(* C13: whatever the outcomes of the writes of the transcript callback,    *)
(* the memory keeps what the handler did (the user's entry is in the log   *)
(* and the reply after it), the handler runs to its end (every saveMemory  *)
(* call of it is made), a file no write touched is as it was, and when the *)
(* last write succeeds memory.json holds the document of the whole memory, *)
(* whatever failed before.                                                 *)

C13_FailedWriteKeepsMemory ==
  [][\A socket \in Sockets, dgResult \in Final :
       Hears(socket, dgResult) =>
         /\ LogGrew
         /\ Len(Appended) >= 2
         /\ Appended[1] = [time |-> now, from |-> "user", text |-> dgResult.transcript]
         /\ Len(writes') >= 2
         /\ (\A i \in DOMAIN writes' : writes'[i] = "failed") => disk' = disk
         /\ writes'[Len(writes')] = "ok" => disk' = Document(JSONstringify(memory'))]_vars

\* the first write of the handler failed, the next one succeeded: the file
\* holds what the handler did
C13_Witness ==
  /\ Heard
  /\ writes = <<"failed", "ok">>
  /\ disk = Document(JSONstringify(memory))
  /\ Len(memory.conversationLog) >= 2

-----------------------------------------------------------------------------
(* Starting on any file, C14, under SpecStartup.                           *)

\* the content of the file is the document of a memory
Usable(file) == file.kind = "doc" /\ WellFormed(JSONparse(file.doc))

\* the process has just started: nobody has connected yet
AtStartup == connected = {}

(* C14: whatever memory.json holds, the memory of the started process has  *)
(* all its properties, and it is the empty default when the file is        *)
(* absent, unreadable, not JSON, or JSON that is not a memory.             *)

C14_StartupWellFormed ==
  /\ WellFormed(memory)
  /\ AtStartup /\ ~Usable(disk) => memory = EmptyMemory

-----------------------------------------------------------------------------
(* The light and its broadcast, C15, under SpecLight.                      *)

\* the light-state events among what a handler emitted
LightBroadcasts(emitted) == {i \in DOMAIN emitted : emitted[i].event = "light-state"}

\* the handler emitted light-state once, to every connection, with the
\* value state.light has when the handler ends
BroadcastsLight ==
  /\ Cardinality(LightBroadcasts(out')) = 1
  /\ \A i \in LightBroadcasts(out') :
       out'[i].to = connected /\ out'[i].data = memory'.state.light

\* the step is a handler's
LightHandlerStep ==
  \/ \E socket \in Sockets, dgResult \in LightDgResults :
       Transcript(socket, dgResult, Light)
  \/ \E socket \in Sockets, request \in SmartHomeRequests :
       SmartHome(socket, request, Light)
  \/ \E socket \in Sockets, data \in LightSamples : FaceData(socket, data, Light)
  \/ \E socket \in Sockets, frame \in Frames : LidarData(socket, frame, Light)

(* C15: a smart-home request for the light and a voice command for the     *)
(* light assign state.light and broadcast light-state once, to all         *)
(* connections, with the new value; a handler step that broadcasts nothing *)
(* leaves state.light as it was.  So within one process the value last     *)
(* broadcast is state.light.                                               *)

C15_LightIsBroadcast ==
  [][/\ \A socket \in Sockets, request \in SmartHomeRequests :
          request.device = "light" /\ SmartHome(socket, request, Light) =>
            BroadcastsLight /\ memory'.state.light = (request.action = "on")
     /\ \A socket \in Sockets, dgResult \in LightDgResults :
          /\ Says(dgResult, PhraseLightOn) \/ Says(dgResult, PhraseLightOff)
          /\ out' # <<>>
          /\ out'[1].event = "transcript"
          /\ Transcript(socket, dgResult, Light)
          => BroadcastsLight /\ memory'.state.light = Says(dgResult, PhraseLightOn)
     /\ \/ BroadcastsLight
        \/ LightBroadcasts(out') = {} /\ memory'.state.light = memory.state.light
        \/ ~LightHandlerStep
    ]_vars

\* two clients are connected, the light was switched on by voice and then
\* off by a request: both clients were told
C15_Witness ==
  /\ connected = Sockets
  /\ ~memory.state.light
  /\ \E i \in LightBroadcasts(out) : out[i].to = Sockets /\ out[i].data = FALSE
  /\ \E i \in DOMAIN memory.conversationLog :
       memory.conversationLog[i].text = LogLightOn

-----------------------------------------------------------------------------
(* The admin panel without the token, C16, under SpecAdmin.                *)

AdminResponses == {i \in DOMAIN out : out[i].event = "admin"}

Unauthorized == [status |-> 401, body |-> <<"Unauthorized">>]

(* C16: a request for /admin whose token is missing or is not the valid    *)
(* token is answered with status 401 and the body 'Unauthorized', whatever *)
(* the memory holds: the response is one fixed value, so it carries no     *)
(* face name, log entry, emotion or state.                                 *)

C16_UnauthorizedTellsNothing ==
  \A i \in AdminResponses :
    out[i].data.token # validToken => out[i].data.response = Unauthorized

\* a request without a token was answered while a face is known, the
\* light is on and the log and the emotion history have entries
C16_Witness ==
  /\ AdminResponses # {}
  /\ \A i \in AdminResponses :
       out[i].data.token = Undefined /\ out[i].data.response.status = 401
  /\ memory.faces # <<>>
  /\ memory.state.light
  /\ memory.conversationLog # <<>>
  /\ memory.emotionHistory # <<>>

-----------------------------------------------------------------------------
(* One handler at a time, C17, under SpecLoop.                             *)

Running == {socket \in Sockets : running[socket].handler # "none"}

(* C17: with events of several connections pending, at most one handler is *)
(* under way at any time, the memory is as that handler last left it (no   *)
(* step of another handler came in between), and when the last write made  *)
(* succeeded memory.json holds the document of the whole memory.           *)

C17_OneHandlerAtATime ==
  /\ Cardinality(Running) <= 1
  /\ \A socket \in Running : memory = running[socket].made
  /\ LastWriteOk => disk = Document(JSONstringify(memory))

\* two clients are connected, a face was remembered and saved, and the
\* handler of a request of one client is between its assignment and its
\* write
C17_Witness ==
  /\ connected = Sockets
  /\ Reached("s1", "smart-home", "save")
  /\ memory.faces # <<>>
  /\ disk.kind = "doc"
  /\ disk # Document(JSONstringify(memory))

-----------------------------------------------------------------------------
(* The order of the voice rules, C18, under SpecOrder.                     *)

AssistantEntry(text) == [time |-> now, from |-> "assistant", text |-> text]

\* the first rule whose phrase the lower-cased transcript holds
FirstRule(dgResult) ==
  CASE Says(dgResult, PhraseLightOn) -> "light on"
    [] Says(dgResult, PhraseLightOff) -> "light off"
    [] Says(dgResult, PhraseRemember) -> "remember"
    [] OTHER -> "none"

(* C18: of the rules light on, light off, remember face, the first whose   *)
(* phrase the transcript holds takes effect and no other does: light on    *)
(* sets state.light, replies and logs its confirmation and appends no      *)
(* face, also when the transcript holds 'выключи свет' or 'запомни лицо'   *)
(* with a name; light off likewise when 'включи свет' is not held.         *)

C18_FirstRuleWins ==
  [][\A socket \in FacesSockets, dgResult \in OrderDgResults :
       Hears(socket, dgResult) =>
         /\ FirstRule(dgResult) = "light on" =>
              /\ memory'.state.light
              /\ memory'.faces = memory.faces
              /\ OneReply(socket, ReplyLightOn)
              /\ InterpreterAppended =
                   <<AssistantEntry(ReplyLightOn), AssistantEntry(LogLightOn)>>
         /\ FirstRule(dgResult) = "light off" =>
              /\ ~memory'.state.light
              /\ memory'.faces = memory.faces
              /\ OneReply(socket, ReplyLightOff)
              /\ InterpreterAppended =
                   <<AssistantEntry(ReplyLightOff), AssistantEntry(LogLightOff)>>
         /\ FirstRule(dgResult) = "remember" =>
              /\ memory'.state.light = memory.state.light
              /\ \E reply \in {ReplyAskName, ReplyNoFace,
                              ReplyRemembered(ExtractName(ToLowerCase(dgResult.transcript)))} :
                   OneReply(socket, reply)
         /\ FirstRule(dgResult) = "none" =>
              /\ memory'.state = memory.state
              /\ memory'.faces = memory.faces
              /\ OneReply(socket, ReplyNotUnderstood)]_vars

\* 'выключи свет Включи свет' was heard last and the light is on; before
\* it 'Включи свет запомни лицо как Анна' was heard while a descriptor was
\* there, and no face is known
C18_Witness ==
  /\ Heard
  /\ out[1].data = SayOffThenOn
  /\ memory.state.light
  /\ memory.lastFaceDescriptor # NoDescriptor
  /\ memory.faces = <<>>
  /\ \E i \in DOMAIN memory.conversationLog :
       /\ memory.conversationLog[i].from = "user"
       /\ memory.conversationLog[i].text = SayOnRemember

-----------------------------------------------------------------------------
(* The greeting of a smile, C19, under SpecGreeting: every known           *)
(* descriptor and every sampled one has one coordinate.                    *)

\* the records within the threshold of a descriptor of their length
NearRecords(descriptor, faces) ==
  {i \in DOMAIN faces :
     /\ Len(faces[i].descriptor) = Len(descriptor)
     /\ Near(SquaredDistance(faces[i].descriptor, descriptor))}

\* the sample supplies a descriptor that some known face is near
Recognizable(data) ==
  /\ data.descriptor # NoDescriptor
  /\ NearRecords(data.descriptor[1], memory.faces) # {}

(* C19: a face-data sample whose emotion is 'happy' sends exactly one      *)
(* speech-output, to the originating connection alone, and appends exactly *)
(* one assistant entry holding the same greeting; the greeting names a     *)
(* known face near the sample's descriptor when there is one, and is the   *)
(* generic greeting when the sample has no descriptor, no face is known or *)
(* none is near.                                                           *)

C19_SmileIsGreeted ==
  [][\A socket \in Sockets, data \in GreetingSamples :
       /\ data.emotion = "happy"
       /\ out' # <<>>
       /\ FaceData(socket, data, Greeting)
       => \E greeting \in
               IF Recognizable(data)
               THEN {GreetingNamed(memory.faces[i].name) :
                       i \in NearRecords(data.descriptor[1], memory.faces)}
               ELSE {GreetingGeneric} :
            /\ OneReply(socket, greeting)
            /\ LogGrew
            /\ Appended = <<AssistantEntry(greeting)>>]_vars

\* with two clients connected, one was greeted by name after a smile was
\* greeted as a stranger's
C19_Witness ==
  /\ connected = Sockets
  /\ Len(out) = 1
  /\ out[1].event = "tts"
  /\ out[1].to = {"s2"}
  /\ out[1].data = GreetingNamed(<<"v", "o", "v", "a">>)
  /\ Len(memory.conversationLog) = 2
  /\ memory.conversationLog[1].text = GreetingGeneric

-----------------------------------------------------------------------------
(* The last descriptor seen, C20, under SpecFaces.                         *)

(* C20: within one process, once lastFaceDescriptor is set no event makes  *)
(* it absent, and it changes only to the descriptor of a face-data sample  *)
(* that carries one; a remember-face command with a name then appends a    *)
(* record with that name and the descriptor lastFaceDescriptor holds, the  *)
(* one most recently supplied.                                             *)

C20_DescriptorStays ==
  [][/\ memory.lastFaceDescriptor # NoDescriptor /\ ~Restart =>
          /\ memory'.lastFaceDescriptor # NoDescriptor
          /\ memory'.lastFaceDescriptor # memory.lastFaceDescriptor =>
               \E socket \in FacesSockets, data \in FacesSamples :
                 /\ data.descriptor = memory'.lastFaceDescriptor
                 /\ FaceData(socket, data, Voice)
     /\ \A socket \in FacesSockets, dgResult \in FacesDgResults :
          memory.lastFaceDescriptor # NoDescriptor /\ Hears(socket, dgResult) =>
            memory'.faces =
              Append(memory.faces,
                     [name |-> ExtractName(ToLowerCase(dgResult.transcript)),
                      descriptor |-> memory.lastFaceDescriptor[1]])]_vars

\* a face was remembered from one descriptor and, after a request, a
\* spatial frame and a sample with another descriptor, a second face from
\* that one
C20_Witness ==
  /\ Remembered
  /\ Len(memory.faces) = 2
  /\ memory.faces[1].descriptor = <<0>>
  /\ memory.faces[2].descriptor = <<4>>
  /\ memory.lastFaceDescriptor = Some(<<4>>)
  /\ memory.lastLidarFrame # Undefined
  /\ memory.state.light

====
